---- MODULE Spec2Model ----
(***************************************************************************)
(* Model of the ResearchAI ingestion and retrieval pipeline:               *)
(*   - chunkText: sliding word window with overlap                         *)
(*   - runIngestion: clear, read, extract, chunk, embed, persist           *)
(*   - match_information / retrieveInformation: similarity search          *)
(* Texts are sequences of one-character strings.                           *)
(***************************************************************************)
EXTENDS Integers, Sequences, FiniteSets, TLC

\* ------------------------------------------------------------------------
\* Bounds of the model
\* ------------------------------------------------------------------------
MaxTextLen == 7
MaxChunkSize == 3

\* ------------------------------------------------------------------------
\* Text helpers (JavaScript string operations used by chunkText)
\* ------------------------------------------------------------------------
WS == {" "}
Letters == {"a", "b"}
Chars == Letters \cup WS

Min(a, b) == IF a < b THEN a ELSE b

\* Tokens of text[lo..hi] separated by single whitespace characters; the
\* first and the last token may continue in the neighbouring range.
RECURSIVE SplitRange(_, _, _)
SplitRange(text, lo, hi) ==
  IF lo = hi
  THEN IF text[lo] \in WS THEN << <<>>, <<>> >> ELSE << << text[lo] >> >>
  ELSE LET mid == (lo + hi) \div 2
           l   == SplitRange(text, lo, mid)
           r   == SplitRange(text, mid + 1, hi)
       IN SubSeq(l, 1, Len(l) - 1) \o << l[Len(l)] \o r[1] >> \o Tail(r)

\* text.split(/\s+/): the tokens between maximal whitespace runs; a leading
\* or trailing run leaves an empty token at that end, a run inside none.
SplitWs(text) ==
  IF text = <<>> THEN << <<>> >>
  ELSE LET t == SplitRange(text, 1, Len(text))
       IN IF Len(t) = 1 THEN t
          ELSE << t[1] >>
               \o SelectSeq(SubSeq(t, 2, Len(t) - 1), LAMBDA w : Len(w) > 0)
               \o << t[Len(t)] >>

\* .filter(word => word.length > 0)
NonEmpty(tokens) == SelectSeq(tokens, LAMBDA w : Len(w) > 0)

Words(text) == NonEmpty(SplitWs(text))

\* text.trim()
RECURSIVE TrimLeft(_)
TrimLeft(text) ==
  IF text # <<>> /\ Head(text) \in WS THEN TrimLeft(Tail(text)) ELSE text

RECURSIVE TrimRight(_)
TrimRight(text) ==
  IF text # <<>> /\ text[Len(text)] \in WS
  THEN TrimRight(SubSeq(text, 1, Len(text) - 1)) ELSE text

Trim(text) == TrimRight(TrimLeft(text))

\* chunkWords.join(' ')
RECURSIVE JoinRange(_, _, _)
JoinRange(ws, lo, hi) ==
  IF lo = hi THEN ws[lo]
  ELSE LET mid == (lo + hi) \div 2
       IN JoinRange(ws, lo, mid) \o << " " >> \o JoinRange(ws, mid + 1, hi)

Join(ws) == IF ws = <<>> THEN <<>> ELSE JoinRange(ws, 1, Len(ws))

\* words.slice(startIndex, endIndex) for 0 <= startIndex
Slice(ws, startIndex, endIndex) == SubSeq(ws, startIndex + 1, endIndex)

\* ------------------------------------------------------------------------
\* chunkText
\* ------------------------------------------------------------------------
\* Variants of the loop used to test the chunker properties.
\* Stops as soon as a window reaches the last word.
RECURSIVE ChunkLoop_StopAtEnd(_, _, _, _, _)
ChunkLoop_StopAtEnd(words, cs, ov, startIndex, acc) ==
  IF ~(startIndex < Len(words)) THEN acc
  ELSE LET endIndex == Min(startIndex + cs, Len(words))
           chunk    == Join(Slice(words, startIndex, endIndex))
           acc2     == Append(acc, chunk)
           next     == startIndex + (cs - ov)
       IN IF (next <= Len(acc2) - 1 /\ ov >= cs) \/ endIndex = Len(words)
          THEN acc2
          ELSE ChunkLoop_StopAtEnd(words, cs, ov, next, acc2)

\* Window one word too long.
RECURSIVE ChunkLoop_LongWindow(_, _, _, _, _)
ChunkLoop_LongWindow(words, cs, ov, startIndex, acc) ==
  IF ~(startIndex < Len(words)) THEN acc
  ELSE LET endIndex == Min(startIndex + cs + 1, Len(words))
           chunk    == Join(Slice(words, startIndex, endIndex))
           acc2     == Append(acc, chunk)
           next     == startIndex + (cs - ov)
       IN IF next <= Len(acc2) - 1 /\ ov >= cs
          THEN acc2
          ELSE ChunkLoop_LongWindow(words, cs, ov, next, acc2)

\* Advances by a whole window, ignoring the overlap.
RECURSIVE ChunkLoop_NoOverlap(_, _, _, _, _)
ChunkLoop_NoOverlap(words, cs, ov, startIndex, acc) ==
  IF ~(startIndex < Len(words)) THEN acc
  ELSE LET endIndex == Min(startIndex + cs, Len(words))
           chunk    == Join(Slice(words, startIndex, endIndex))
           acc2     == Append(acc, chunk)
           next     == startIndex + cs
       IN IF next <= Len(acc2) - 1 /\ ov >= cs
          THEN acc2
          ELSE ChunkLoop_NoOverlap(words, cs, ov, next, acc2)

\* Window that starts one word late.
RECURSIVE ChunkLoop_LateWindow(_, _, _, _, _)
ChunkLoop_LateWindow(words, cs, ov, startIndex, acc) ==
  IF ~(startIndex < Len(words)) THEN acc
  ELSE LET endIndex == Min(startIndex + cs, Len(words))
           chunk    == Join(Slice(words, startIndex + 1, endIndex))
           acc2     == Append(acc, chunk)
           next     == startIndex + (cs - ov)
       IN IF next <= Len(acc2) - 1 /\ ov >= cs
          THEN acc2
          ELSE ChunkLoop_LateWindow(words, cs, ov, next, acc2)

\* Guard that compares strictly, so it fires one iteration later.
RECURSIVE ChunkLoop_LateBreak(_, _, _, _, _)
ChunkLoop_LateBreak(words, cs, ov, startIndex, acc) ==
  IF ~(startIndex < Len(words)) THEN acc
  ELSE LET endIndex == Min(startIndex + cs, Len(words))
           chunk    == Join(Slice(words, startIndex, endIndex))
           acc2     == Append(acc, chunk)
           next     == startIndex + (cs - ov)
       IN IF next < Len(acc2) - 1 /\ ov >= cs
          THEN acc2
          ELSE ChunkLoop_LateBreak(words, cs, ov, next, acc2)

\* The while loop of chunkText: one iteration per recursion.
RECURSIVE ChunkLoop(_, _, _, _, _)
ChunkLoop(words, cs, ov, startIndex, acc) ==
  IF ~(startIndex < Len(words)) THEN acc
  ELSE LET endIndex == Min(startIndex + cs, Len(words))
           chunk    == Join(Slice(words, startIndex, endIndex))
           acc2     == Append(acc, chunk)
           next     == startIndex + (cs - ov)
       IN IF next <= Len(acc2) - 1 /\ ov >= cs
          THEN acc2
          ELSE ChunkLoop(words, cs, ov, next, acc2)

chunkText(text, cs, ov) ==
  LET words == Words(text)
  IN IF Len(words) <= cs THEN << Trim(text) >>
     ELSE ChunkLoop(words, cs, ov, 0, <<>>)

\* ------------------------------------------------------------------------
\* JSON values (metadata objects, jsonb column)
\* ------------------------------------------------------------------------
JNull == [t |-> "null", v |-> 0]
Str(x) == [t |-> "s", v |-> x]
Num(n) == [t |-> "n", v |-> n]
Arr(xs) == [t |-> "a", v |-> xs]
Obj(f) == [t |-> "o", v |-> f]
NoFields == [k \in {} |-> JNull]

\* { ...a, ...b }: the fields of b override those of a
Spread(a, b) == b @@ a

\* ------------------------------------------------------------------------
\* State
\* ------------------------------------------------------------------------
VARIABLES
  cText, cChunkSize, cOverlap, cChunks, cPc,  \* one call of chunkText
  store,             \* rows of table embeddedinfo, in insertion order
  nextId,            \* bigserial of embeddedinfo.id
  arrays,            \* the array objects created for embeddedResults
  embeddedResults,   \* index in arrays of the array the module variable holds
  run,               \* locals and position of every runIngestion call
  calls,             \* history of the collaborator calls that completed
  retrieval,         \* the last call of retrieveInformation and its outcome
  api                \* the HTTP request handled and the response sent

chunkVars == << cText, cChunkSize, cOverlap, cChunks, cPc >>
ingestVars == << store, nextId, arrays, embeddedResults, run, calls >>
vars == << cText, cChunkSize, cOverlap, cChunks, cPc,
           store, nextId, arrays, embeddedResults, run, calls, retrieval,
           api >>

\* ------------------------------------------------------------------------
\* Ingestion: runIngestion and the functions it awaits
\* ------------------------------------------------------------------------
DefaultChunkSize == 300
DefaultOverlap == 50
ChatModel == "gpt-4o-mini"

MaxFiles == 2
MaxDocWords == 310

RunIds == {1, 2}
NumEmb == 6

\* A text of n one-letter words separated by single spaces.
MkText(n) == [k \in 1 .. (2 * n - 1) |-> IF k % 2 = 1 THEN "a" ELSE " "]

DocTexts == { MkText(1), MkText(MaxDocWords) }

\* A text of n one-letter words of which the first m are "a" and the
\* others "b", and the document of the default-parameter example: as many
\* words as the longest document, marked where the second window starts.
MarkedText(n, m) ==
  [k \in 1 .. (2 * n - 1) |-> IF k % 2 = 0 THEN " "
                              ELSE IF k <= 2 * m THEN "a" ELSE "b"]

ExampleText == MarkedText(MaxDocWords, DefaultChunkSize - DefaultOverlap)

FileName(k) == "f" \o ToString(k) \o ".txt"

\* The directory listings readInfoFiles can return: up to MaxFiles files
\* with distinct names.
RECURSIVE FileListsOfLen(_)
FileListsOfLen(n) ==
  IF n = 0 THEN { <<>> }
  ELSE { Append(fs, [filename |-> FileName(n), content |-> c]) :
           fs \in FileListsOfLen(n - 1), c \in DocTexts }

FileLists == UNION { FileListsOfLen(n) : n \in 0 .. MaxFiles }

\* What the extraction model may answer (parsed JSON).
ExtractedObjects ==
  { NoFields,
    [name |-> Str("alice"), source_filename |-> Str("elsewhere")] }

\* The embedding service, as a function of the text.
EmbeddingOf(content) == Len(content) % NumEmb

OldRow ==
  [id |-> 1, filename |-> "old.txt", content |-> << "b" >>,
   metadata |-> JNull, embedding |-> 0, by |-> 0]

NoResult == [returned |-> FALSE, success |-> FALSE,
             filesProcessed |-> -1, chunksCreated |-> -1]

NoRetrieval ==
  [called |-> FALSE, query |-> 0, matchCount |-> 0, matchThreshold |-> 0,
   metadataFilter |-> JNull, hasData |-> FALSE, data |-> <<>>,
   error |-> "", hasEmbedding |-> FALSE, searched |-> FALSE]

\* A JavaScript undefined (a field absent from the request body).
JUndef == [t |-> "undefined", v |-> 0]

NoRequest ==
  [endpoint |-> "none", input |-> JUndef, status |-> 0, success |-> FALSE,
   generated |-> FALSE, generation |-> "none", prompt |-> <<>>,
   result |-> NoFields]

IdleRun ==
  [pc |-> "idle", clearFirst |-> FALSE, files |-> <<>>, fileIdx |-> 0,
   fileMetadata |-> NoFields, chunks |-> <<>>, i |-> 0,
   iterArr |-> 0, iterIdx |-> 0, successCount |-> 0, errorCount |-> 0,
   result |-> NoResult]

Call(r, op, file, chunk, ok) ==
  [run |-> r, op |-> op, file |-> file, chunk |-> chunk, ok |-> ok]

IngestIdle ==
  /\ store = <<>>
  /\ nextId = 1
  /\ arrays = << <<>> >>
  /\ embeddedResults = 1
  /\ run = [r \in RunIds |-> IdleRun]
  /\ calls = <<>>

ChunkIdle ==
  /\ cText = <<>>
  /\ cChunkSize = DefaultChunkSize
  /\ cOverlap = DefaultOverlap
  /\ cChunks = <<>>
  /\ cPc = "idle"

Init ==
  /\ ChunkIdle
  /\ store \in { <<>>, << OldRow >> }
  /\ nextId = Len(store) + 1
  /\ arrays = << <<>> >>
  /\ embeddedResults = 1
  /\ run = [r \in RunIds |-> IdleRun]
  /\ calls = <<>>
  /\ retrieval = NoRetrieval
  /\ api = NoRequest

\* extractMetadataWithAI: the object returned on success and in the catch
SystemMetadata(filename) ==
  [source_filename |-> Str(filename), file_type |-> Str("txt"),
   extracted_at |-> Str("timestamp"), extraction_model |-> Str(ChatModel)]

DegradedMetadata(filename) ==
  [source_filename |-> Str(filename), file_type |-> Str("txt"),
   extracted_at |-> Str("timestamp"), extraction_error |-> Str("error")]

\* Variant: the fields returned by the model override the system's.
extractMetadataWithAI_ModelWins(filename, ok, extracted) ==
  IF ok THEN Spread(SystemMetadata(filename), extracted)
  ELSE DegradedMetadata(filename)

\* Variant: the catch also returns the extraction model identifier.
extractMetadataWithAI_ModelOnError(filename, ok, extracted) ==
  IF ok THEN Spread(extracted, SystemMetadata(filename))
  ELSE Spread(DegradedMetadata(filename),
              [extraction_model |-> Str(ChatModel)])

extractMetadataWithAI(filename, ok, extracted) ==
  IF ok THEN Spread(extracted, SystemMetadata(filename))
  ELSE DegradedMetadata(filename)

\* The record ingestAndEmbed pushes for chunk i (0-based) of a file.
EmbeddedRecord(r, filename, fileMetadata, chunks, i) ==
  LET chunk == chunks[i + 1]
  IN [filename  |-> filename,
      content   |-> chunk,
      embedding |-> EmbeddingOf(chunk),
      metadata  |-> Spread(fileMetadata,
                      [chunk_index      |-> Num(i),
                       chunk_number     |-> Num(i + 1),
                       total_chunks     |-> Num(Len(chunks)),
                       chunk_size_chars |-> Num(Len(chunk)),
                       chunk_size_words |-> Num(Len(SplitWs(chunk)))]),
      by        |-> r]

\* The summary computed at the end of runIngestion.
FilesProcessed(buf) == Cardinality({ buf[k].filename : k \in 1 .. Len(buf) })

Finish(rn, arrs, er) ==
  [rn EXCEPT !.pc = "done",
             !.result = [returned |-> TRUE, success |-> TRUE,
                         filesProcessed |-> FilesProcessed(arrs[er]),
                         chunksCreated |-> Len(arrs[er])]]

\* insertEmbeddedInfoToSupabase up to its first await.
BeginPersist(rn, arrs, er) ==
  IF Len(arrs[er]) = 0 THEN Finish(rn, arrs, er)
  ELSE [rn EXCEPT !.pc = "insert", !.iterArr = er, !.iterIdx = 1,
                  !.successCount = 0, !.errorCount = 0]

\* Variant: the persist phase begins after every document.
AfterDocument_PersistEach(rn, arrs, er) ==
  BeginPersist(rn, arrs, er)

\* End of one iteration of `for (const file of files)`.
AfterDocument(rn, arrs, er) ==
  IF rn.fileIdx < Len(rn.files)
  THEN [rn EXCEPT !.pc = "extract", !.fileIdx = @ + 1]
  ELSE BeginPersist(rn, arrs, er)

\* Variant: the buffer of the previous run is kept.
Start_KeepBuffer(r, cf) ==
  /\ run[r].pc = "idle"
  /\ run' = [run EXCEPT ![r] = [@ EXCEPT !.pc = IF cf THEN "clear" ELSE "read",
                                         !.clearFirst = cf]]
  /\ calls' = Append(calls, Call(r, "start", "", -1, TRUE))
  /\ UNCHANGED << store, nextId, arrays, embeddedResults >>
  /\ UNCHANGED << chunkVars, retrieval, api >>

\* runIngestion(clearFirst) up to its first await: resets the buffer.
Start(r, cf) ==
  /\ run[r].pc = "idle"
  /\ arrays' = Append(arrays, <<>>)
  /\ embeddedResults' = Len(arrays) + 1
  /\ run' = [run EXCEPT ![r] = [@ EXCEPT !.pc = IF cf THEN "clear" ELSE "read",
                                         !.clearFirst = cf]]
  /\ calls' = Append(calls, Call(r, "start", "", -1, TRUE))
  /\ UNCHANGED << store, nextId >>
  /\ UNCHANGED << chunkVars, retrieval, api >>

\* Variant: the delete reports success and leaves the rows in place.
ClearDatabase_Deferred(r, ok) ==
  /\ run[r].pc = "clear"
  /\ store' = store
  /\ calls' = Append(calls, Call(r, "delete", "", -1, ok))
  /\ run' = [run EXCEPT ![r] = [@ EXCEPT !.pc = "read"]]
  /\ UNCHANGED << nextId, arrays, embeddedResults >>
  /\ UNCHANGED << chunkVars, retrieval, api >>

\* clearDatabase: the delete completes (ok) or returns an error.
ClearDatabase(r, ok) ==
  /\ run[r].pc = "clear"
  /\ store' = IF ok THEN <<>> ELSE store
  /\ calls' = Append(calls, Call(r, "delete", "", -1, ok))
  /\ run' = [run EXCEPT ![r] = [@ EXCEPT !.pc = "read"]]
  /\ UNCHANGED << nextId, arrays, embeddedResults >>
  /\ UNCHANGED << chunkVars, retrieval, api >>

\* readInfoFiles: returns the files or throws (caught by runIngestion).
ReadInfoFiles(r, ok, fs) ==
  /\ run[r].pc = "read"
  /\ ~ok => fs = <<>>
  /\ calls' = Append(calls, Call(r, "read", "", -1, ok))
  /\ run' = [run EXCEPT ![r] =
       IF ~ok
       THEN [@ EXCEPT !.pc = "done",
                      !.result = [NoResult EXCEPT !.returned = TRUE]]
       ELSE IF fs = <<>>
       THEN BeginPersist([@ EXCEPT !.files = fs], arrays, embeddedResults)
       ELSE [@ EXCEPT !.files = fs, !.fileIdx = 1, !.pc = "extract"]]
  /\ UNCHANGED << store, nextId, arrays, embeddedResults >>
  /\ UNCHANGED << chunkVars, retrieval, api >>

\* extractMetadataWithAI completes for the current file; the file is then
\* chunked and the embedding of its first chunk is requested.
ExtractMetadata(r, ok, extracted) ==
  /\ run[r].pc = "extract"
  /\ ~ok => extracted = NoFields
  /\ LET file == run[r].files[run[r].fileIdx]
     IN /\ calls' = Append(calls, Call(r, "extract", file.filename, -1, ok))
        /\ run' = [run EXCEPT ![r] =
             [@ EXCEPT !.fileMetadata =
                          extractMetadataWithAI(file.filename, ok, extracted),
                       !.chunks = chunkText(file.content, DefaultChunkSize,
                                            DefaultOverlap),
                       !.i = 0,
                       !.pc = "embed"]]
  /\ UNCHANGED << store, nextId, arrays, embeddedResults >>
  /\ UNCHANGED << chunkVars, retrieval, api >>

\* Variant: an exception of generateEmbedding is not caught per file and
\* reaches the catch of runIngestion.
GenerateEmbedding_Rethrow(r, ok) ==
  /\ run[r].pc = "embed"
  /\ LET rn   == run[r]
         file == rn.files[rn.fileIdx]
         rec  == EmbeddedRecord(r, file.filename, rn.fileMetadata, rn.chunks, rn.i)
         arrs == IF ok THEN [arrays EXCEPT ![embeddedResults] = Append(@, rec)]
                 ELSE arrays
     IN /\ calls' = Append(calls, Call(r, "embed", file.filename, rn.i, ok))
        /\ arrays' = arrs
        /\ run' = [run EXCEPT ![r] =
             IF ~ok
             THEN [rn EXCEPT !.pc = "done",
                             !.result = [NoResult EXCEPT !.returned = TRUE]]
             ELSE IF rn.i + 1 < Len(rn.chunks)
             THEN [rn EXCEPT !.i = @ + 1]
             ELSE AfterDocument([rn EXCEPT !.i = @ + 1], arrs, embeddedResults)]
  /\ UNCHANGED << store, nextId, embeddedResults >>
  /\ UNCHANGED << chunkVars, retrieval, api >>

\* generateEmbedding completes for chunk i of the current file: the record
\* is pushed, or the exception ends the processing of this file.
GenerateEmbedding(r, ok) ==
  /\ run[r].pc = "embed"
  /\ LET rn   == run[r]
         file == rn.files[rn.fileIdx]
         rec  == EmbeddedRecord(r, file.filename, rn.fileMetadata, rn.chunks, rn.i)
         arrs == IF ok THEN [arrays EXCEPT ![embeddedResults] = Append(@, rec)]
                 ELSE arrays
     IN /\ calls' = Append(calls, Call(r, "embed", file.filename, rn.i, ok))
        /\ arrays' = arrs
        /\ run' = [run EXCEPT ![r] =
             IF ok /\ rn.i + 1 < Len(rn.chunks)
             THEN [rn EXCEPT !.i = @ + 1]
             ELSE AfterDocument([rn EXCEPT !.i = IF ok THEN @ + 1 ELSE @],
                                arrs, embeddedResults)]
  /\ UNCHANGED << store, nextId, embeddedResults >>
  /\ UNCHANGED << chunkVars, retrieval, api >>

\* Variant: a run persists only the records it embedded itself.
InsertRecord_OwnRecordsOnly(r, ok) ==
  /\ run[r].pc = "insert"
  /\ LET rn  == run[r]
         rec == arrays[rn.iterArr][rn.iterIdx]
         own == rec.by = r
         row == [id |-> nextId, filename |-> rec.filename,
                 content |-> rec.content, metadata |-> Obj(rec.metadata),
                 embedding |-> rec.embedding, by |-> r]
         rn2 == [rn EXCEPT !.iterIdx = @ + 1,
                           !.successCount = IF ok /\ own THEN @ + 1 ELSE @,
                           !.errorCount = IF ok \/ ~own THEN @ ELSE @ + 1]
     IN /\ calls' = IF own
                    THEN Append(calls, Call(r, "insert", rec.filename,
                                            rec.metadata.chunk_index.v, ok))
                    ELSE calls
        /\ store' = IF ok /\ own THEN Append(store, row) ELSE store
        /\ nextId' = IF ok /\ own THEN nextId + 1 ELSE nextId
        /\ run' = [run EXCEPT ![r] =
             IF rn2.iterIdx <= Len(arrays[rn.iterArr]) THEN rn2
             ELSE Finish(rn2, arrays, embeddedResults)]
  /\ UNCHANGED << arrays, embeddedResults >>
  /\ UNCHANGED << chunkVars, retrieval, api >>

\* Variant: the first failed insert ends the loop.
InsertRecord_AbortOnError(r, ok) ==
  /\ run[r].pc = "insert"
  /\ LET rn  == run[r]
         rec == arrays[rn.iterArr][rn.iterIdx]
         row == [id |-> nextId, filename |-> rec.filename,
                 content |-> rec.content, metadata |-> Obj(rec.metadata),
                 embedding |-> rec.embedding, by |-> r]
         rn2 == [rn EXCEPT !.iterIdx = @ + 1,
                           !.successCount = IF ok THEN @ + 1 ELSE @,
                           !.errorCount = IF ok THEN @ ELSE @ + 1]
     IN /\ calls' = Append(calls, Call(r, "insert", rec.filename,
                                       rec.metadata.chunk_index.v, ok))
        /\ store' = IF ok THEN Append(store, row) ELSE store
        /\ nextId' = IF ok THEN nextId + 1 ELSE nextId
        /\ run' = [run EXCEPT ![r] =
             IF ok /\ rn2.iterIdx <= Len(arrays[rn.iterArr]) THEN rn2
             ELSE Finish(rn2, arrays, embeddedResults)]
  /\ UNCHANGED << arrays, embeddedResults >>
  /\ UNCHANGED << chunkVars, retrieval, api >>

\* One insert of insertEmbeddedInfoToSupabase completes.
InsertRecord(r, ok) ==
  /\ run[r].pc = "insert"
  /\ LET rn  == run[r]
         rec == arrays[rn.iterArr][rn.iterIdx]
         row == [id |-> nextId, filename |-> rec.filename,
                 content |-> rec.content, metadata |-> Obj(rec.metadata),
                 embedding |-> rec.embedding, by |-> r]
         rn2 == [rn EXCEPT !.iterIdx = @ + 1,
                           !.successCount = IF ok THEN @ + 1 ELSE @,
                           !.errorCount = IF ok THEN @ ELSE @ + 1]
     IN /\ calls' = Append(calls, Call(r, "insert", rec.filename,
                                       rec.metadata.chunk_index.v, ok))
        /\ store' = IF ok THEN Append(store, row) ELSE store
        /\ nextId' = IF ok THEN nextId + 1 ELSE nextId
        /\ run' = [run EXCEPT ![r] =
             IF rn2.iterIdx <= Len(arrays[rn.iterArr]) THEN rn2
             ELSE Finish(rn2, arrays, embeddedResults)]
  /\ UNCHANGED << arrays, embeddedResults >>
  /\ UNCHANGED << chunkVars, retrieval, api >>

\* A single run of runIngestion.
TheRun == 1

Next ==
  \/ \E cf \in BOOLEAN : Start(TheRun, cf)
  \/ \E ok \in BOOLEAN : ClearDatabase(TheRun, ok)
  \/ \E ok \in BOOLEAN, fs \in FileLists : ReadInfoFiles(TheRun, ok, fs)
  \/ \E ok \in BOOLEAN, ex \in ExtractedObjects : ExtractMetadata(TheRun, ok, ex)
  \/ \E ok \in BOOLEAN : GenerateEmbedding(TheRun, ok)
  \/ \E ok \in BOOLEAN : InsertRecord(TheRun, ok)

Spec == Init /\ [][Next]_vars

\* ------------------------------------------------------------------------
\* Runs of runIngestion one after the other
\* ------------------------------------------------------------------------
MaxSeqRuns == 2

Started == Len(SelectSeq(calls, LAMBDA c : c.op = "start"))

\* The caller received the value runIngestion returned; the next call can
\* be made.
Return(r) ==
  /\ run[r].pc = "done"
  /\ Started < MaxSeqRuns
  /\ run' = [run EXCEPT ![r] = IdleRun]
  /\ UNCHANGED << store, nextId, arrays, embeddedResults, calls >>
  /\ UNCHANGED << chunkVars, retrieval, api >>

\* Directory listings of at most one file.
SeqFileLists == FileListsOfLen(0) \cup FileListsOfLen(1)

InitSeq ==
  /\ ChunkIdle
  /\ IngestIdle
  /\ retrieval = NoRetrieval
  /\ api = NoRequest

\* Runs one after the other; the database does not fail.
NextSeq ==
  \/ \E cf \in BOOLEAN : Start(TheRun, cf)
  \/ ClearDatabase(TheRun, TRUE)
  \/ \E ok \in BOOLEAN, fs \in SeqFileLists : ReadInfoFiles(TheRun, ok, fs)
  \/ \E ok \in BOOLEAN : ExtractMetadata(TheRun, ok, NoFields)
  \/ \E ok \in BOOLEAN : GenerateEmbedding(TheRun, ok)
  \/ InsertRecord(TheRun, TRUE)
  \/ Return(TheRun)

SpecSeq == InitSeq /\ [][NextSeq]_vars

\* ------------------------------------------------------------------------
\* POST /api/ingest: requests that arrive while a run is in progress
\* ------------------------------------------------------------------------
\* handleIngest reads clearFirst from the body and awaits
\* runIngestion(clearFirst); request r is served by call r, the requests
\* being numbered in their order of arrival.
handleIngest(r, cf) ==
  /\ \A earlier \in RunIds : earlier < r => run[earlier].pc # "idle"
  /\ Start(r, cf)

\* An info directory holding two files of one word each.
ConcFileLists ==
  { << [filename |-> FileName(1), content |-> MkText(1)],
       [filename |-> FileName(2), content |-> MkText(1)] >> }

Active(r) == run[r].pc \notin {"idle", "done"}

\* Two requests, the second repeating the body of the first; the
\* collaborators do not fail.
NextConc ==
  \E r \in RunIds :
    \/ \E cf \in BOOLEAN :
         /\ r # TheRun => cf = run[TheRun].clearFirst
         /\ handleIngest(r, cf)
    \/ ClearDatabase(r, TRUE)
    \/ \E fs \in ConcFileLists : ReadInfoFiles(r, TRUE, fs)
    \/ ExtractMetadata(r, TRUE, NoFields)
    \/ GenerateEmbedding(r, TRUE)
    \/ InsertRecord(r, TRUE)

SpecConc == InitSeq /\ [][NextConc]_vars

\* ------------------------------------------------------------------------
\* Ingestion properties
\* ------------------------------------------------------------------------
Buffer == arrays[embeddedResults]
CallIdx == 1 .. Len(calls)
LastCall == calls[Len(calls)]
CallsOf(r, op) == SelectSeq(calls, LAMBDA c : c.run = r /\ c.op = op)
Failed(r, op) == { k \in CallIdx : calls[k].run = r /\ calls[k].op = op /\ ~calls[k].ok }
RowsBy(r) == { k \in 1 .. Len(store) : store[k].by = r }
Returned(r) == run[r].result.returned
Success(r) == run[r].result.returned /\ run[r].result.success

\* C1: in runIngestion(clearFirst=true), a failed delete is fatal: the run
\* returns success:false and makes no directory read, metadata extraction,
\* embedding or insert after the failed delete.
C1_ClearFailureIsFatal ==
  \A k \in Failed(TheRun, "delete") :
    /\ \A j \in CallIdx : j > k => calls[j].run # TheRun
    /\ Returned(TheRun) => ~run[TheRun].result.success

\* The documents of run r for which an embedding call threw.
FailedDocs(r) == { calls[k].file : k \in Failed(r, "embed") }

\* C2: a document whose chunking or embedding throws is skipped entirely:
\* none of its chunks is in the buffer or inserted into the store, and it
\* is not counted in filesProcessed or chunksCreated, also when a later
\* chunk fails after earlier chunks were embedded.
C2_FailedDocumentSkipped ==
  LET bad  == FailedDocs(TheRun)
      good == { k \in 1 .. Len(Buffer) : Buffer[k].filename \notin bad }
  IN /\ \A k \in 1 .. Len(Buffer) : Buffer[k].filename \notin bad
     /\ \A k \in RowsBy(TheRun) : store[k].filename \notin bad
     /\ Success(TheRun) =>
          /\ run[TheRun].result.filesProcessed =
               Cardinality({ Buffer[k].filename : k \in good })
          /\ run[TheRun].result.chunksCreated = Cardinality(good)

\* The documents of run r whose metadata extraction failed.
ExtractFailedDocs(r) == { calls[k].file : k \in Failed(r, "extract") }
ChunkKeys ==
  {"chunk_index", "chunk_number", "total_chunks", "chunk_size_chars",
   "chunk_size_words"}
DegradedKeys == {"source_filename", "file_type", "extracted_at", "extraction_error"}
EmbeddedOk(r, f) ==
  Cardinality({ k \in CallIdx : /\ calls[k].run = r /\ calls[k].op = "embed"
                                /\ calls[k].file = f /\ calls[k].ok })
BufferedOf(f) == Cardinality({ k \in 1 .. Len(Buffer) : Buffer[k].filename = f })

\* After a failed extraction the run goes on with the same document: it is
\* chunked and its first embedding is requested.
DocumentStillProcessed ==
  Len(calls) > 0 /\ LastCall.run = TheRun /\ LastCall.op = "extract" /\ ~LastCall.ok =>
    LET rn   == run[TheRun]
        file == rn.files[rn.fileIdx]
    IN /\ rn.pc = "embed"
       /\ file.filename = LastCall.file
       /\ rn.chunks = chunkText(file.content, DefaultChunkSize, DefaultOverlap)
       /\ rn.i = 0

\* C14 (as stated): when the extraction call fails the metadata is exactly
\* source filename, file type, extraction timestamp, extraction model
\* identifier and extraction_error, and the document is still chunked,
\* embedded and buffered with it.
C14_AsStated ==
  /\ DocumentStillProcessed
  /\ \A k \in 1 .. Len(Buffer) :
       Buffer[k].filename \in ExtractFailedDocs(TheRun) =>
         DOMAIN Buffer[k].metadata =
           DegradedKeys \cup {"extraction_model"} \cup ChunkKeys

\* C14 (amended): when the extraction call fails the metadata is exactly
\* source filename, file type, extraction timestamp and extraction_error
\* (no extraction model identifier, no content field); the document is
\* still chunked, every chunk whose embedding succeeds is buffered, and the
\* buffered records carry that metadata plus the chunk fields.
C14_DegradedMetadata ==
  /\ DocumentStillProcessed
  /\ run[TheRun].pc = "embed"
       /\ run[TheRun].files[run[TheRun].fileIdx].filename \in ExtractFailedDocs(TheRun) =>
       DOMAIN run[TheRun].fileMetadata = DegradedKeys
  /\ \A f \in ExtractFailedDocs(TheRun) : BufferedOf(f) = EmbeddedOk(TheRun, f)
  /\ \A k \in 1 .. Len(Buffer) :
       Buffer[k].filename \in ExtractFailedDocs(TheRun) =>
         /\ DOMAIN Buffer[k].metadata = DegradedKeys \cup ChunkKeys
         /\ Buffer[k].metadata["source_filename"] = Str(Buffer[k].filename)

\* C14 witness: a finished run buffered both chunks of a long document
\* whose extraction failed, and they carry extraction_error.
C14_Witness ==
  /\ Success(TheRun)
  /\ \E f \in ExtractFailedDocs(TheRun) :
       /\ BufferedOf(f) = 2
       /\ \A k \in 1 .. Len(Buffer) :
            Buffer[k].filename = f => "extraction_error" \in DOMAIN Buffer[k].metadata

InsertKey(c) == << c.file, c.chunk >>
RecordKey(rec) == << rec.filename, rec.metadata.chunk_index.v >>

\* The calls made since the latest call of runIngestion started.
LastStart ==
  IF \E k \in CallIdx : calls[k].op = "start"
  THEN CHOOSE k \in CallIdx :
         /\ calls[k].op = "start"
         /\ \A j \in CallIdx : calls[j].op = "start" => j <= k
  ELSE 0
SinceStart(op) ==
  SelectSeq(SubSeq(calls, LastStart + 1, Len(calls)), LAMBDA c : c.op = op)
ProducedNow == SelectSeq(SinceStart("embed"), LAMBDA c : c.ok)
ProducedBefore ==
  SelectSeq(SubSeq(calls, 1, LastStart), LAMBDA c : c.op = "embed" /\ c.ok)

\* C15: for runs made one after the other, the buffer is empty when a run
\* starts, so the buffer holds exactly the records produced during the
\* current run, in order; the inserts of the run are inserts of those
\* records and chunksCreated counts them and nothing from an earlier run.
C15_NoCrossRunLeakage ==
  LastStart > 0 /\ run[TheRun].pc # "idle" =>
    LET ins == SinceStart("insert")
    IN /\ LastCall.op = "start" => Buffer = <<>>
       /\ Len(Buffer) = Len(ProducedNow)
       /\ \A k \in 1 .. Len(Buffer) : RecordKey(Buffer[k]) = InsertKey(ProducedNow[k])
       /\ Len(ins) <= Len(ProducedNow)
       /\ \A k \in 1 .. Len(ins) : InsertKey(ins[k]) = InsertKey(ProducedNow[k])
       /\ Success(TheRun) =>
            /\ Len(ins) = Len(ProducedNow)
            /\ run[TheRun].result.chunksCreated = Len(ProducedNow)

\* C15 witness: an earlier run buffered two records; the run after it
\* buffered one record of its own and reports chunksCreated = 1.
C15_Witness ==
  /\ Started = 2
  /\ Len(ProducedBefore) = 2
  /\ Len(ProducedNow) = 1
  /\ Success(TheRun)
  /\ run[TheRun].result.chunksCreated = 1
  /\ Len(SinceStart("insert")) = 1

\* C16: at most one ingestion run is active at any time: an ingest request
\* that arrives while a run is in progress starts no second run.
C16_AtMostOneActiveRun ==
  Cardinality({ r \in RunIds : Active(r) }) <= 1

\* C3: in the persist phase every buffered record gets exactly one insert
\* attempt, in buffer order; a failed insert is counted, does not stop the
\* remaining inserts and is not repeated, so chunksCreated is the number
\* of insert attempts, not of successful inserts.
C3_OneInsertPerRecord ==
  LET rn  == run[TheRun]
      ins == CallsOf(TheRun, "insert")
  IN /\ Len(ins) <= Len(Buffer)
     /\ \A k \in 1 .. Len(ins) : InsertKey(ins[k]) = RecordKey(Buffer[k])
     /\ rn.pc = "insert" => Len(ins) = rn.iterIdx - 1
     /\ rn.pc \notin {"insert", "done"} => ins = <<>>
     /\ rn.successCount = Cardinality({ k \in 1 .. Len(ins) : ins[k].ok })
     /\ rn.errorCount = Cardinality({ k \in 1 .. Len(ins) : ~ins[k].ok })
     /\ Cardinality(RowsBy(TheRun)) = rn.successCount
     /\ Success(TheRun) =>
          /\ Len(ins) = Len(Buffer)
          /\ rn.result.chunksCreated = Len(ins)

\* C3 witness: a finished run whose first insert failed and a later one
\* succeeded, so that chunksCreated exceeds the number of rows inserted.
C3_Witness ==
  LET ins == CallsOf(TheRun, "insert")
  IN /\ Success(TheRun)
     /\ Len(ins) >= 2
     /\ ~ins[1].ok
     /\ ins[Len(ins)].ok
     /\ run[TheRun].result.chunksCreated > Cardinality(RowsBy(TheRun))

\* C4: a failure of one document (metadata extraction, chunking, embedding)
\* or of one insert never aborts the run: every document is still
\* processed, the persist phase runs, and runIngestion returns
\* success:true whenever the directory read succeeded.
C4_PartialFailuresNotFatal ==
  LET rn    == run[TheRun]
      reads == CallsOf(TheRun, "read")
      exts  == CallsOf(TheRun, "extract")
  IN Returned(TheRun) =>
       /\ Len(reads) = 1
       /\ rn.result.success = reads[1].ok
       /\ reads[1].ok =>
            /\ Len(exts) = Len(rn.files)
            /\ \A k \in 1 .. Len(exts) : exts[k].file = rn.files[k].filename
            /\ Len(CallsOf(TheRun, "insert")) = Len(Buffer)

\* C4 witness: a finished run that reports success although the embedding
\* of its first document failed, a later document was processed, and every
\* insert failed.
C4_Witness ==
  /\ Success(TheRun)
  /\ Len(run[TheRun].files) >= 2
  /\ \E k \in Failed(TheRun, "embed") : calls[k].file = run[TheRun].files[1].filename
  /\ Failed(TheRun, "extract") # {}
  /\ Len(CallsOf(TheRun, "insert")) >= 1
  /\ \A k \in CallIdx : calls[k].op = "insert" => ~calls[k].ok
  /\ RowsBy(TheRun) = {}

\* ------------------------------------------------------------------------
\* Retrieval: match_information and retrieveInformation
\* ------------------------------------------------------------------------
MaxRows == 3
MaxMatchCount == 2

\* Similarities are in units of 1/SimScale.
SimScale == 10

\* Embeddings are unit vectors at multiples of 60 degrees; SimScale times
\* the cosine of the angle between two of them.
ScaledCosine(a, b) ==
  LET d == (a - b + NumEmb) % NumEmb
  IN CASE d = 0 -> SimScale
       [] d \in {1, 5} -> SimScale \div 2
       [] d \in {2, 4} -> -(SimScale \div 2)
       [] OTHER -> -SimScale

\* embedding <=> query_embedding (pgvector cosine distance)
CosineDistance(a, b) == SimScale - ScaledCosine(a, b)

\* 1 - (embedding <=> query_embedding)
Similarity(row, q) == SimScale - CosineDistance(row.embedding, q)

\* jsonb containment a @> b on non-null values: objects by key, arrays as
\* sets of elements, scalars by equality.
RECURSIVE JsonContains(_, _)
JsonContains(a, b) ==
  IF a.t # b.t THEN FALSE
  ELSE CASE a.t = "o" ->
              \A key \in DOMAIN b.v :
                key \in DOMAIN a.v /\ JsonContains(a.v[key], b.v[key])
         [] a.t = "a" ->
              \A y \in b.v : \E x \in a.v : JsonContains(x, y)
         [] OTHER -> a.v = b.v

\* SQL three-valued logic: "t", "f" and "n" (NULL).
SqlBool(b) == IF b THEN "t" ELSE "f"
SqlOr(x, y) ==
  IF x = "t" \/ y = "t" THEN "t" ELSE IF x = "n" \/ y = "n" THEN "n" ELSE "f"
SqlAnd(x, y) ==
  IF x = "f" \/ y = "f" THEN "f" ELSE IF x = "n" \/ y = "n" THEN "n" ELSE "t"

\* Variant: compares only the keys of the filter, not their values.
SqlContains_KeysOnly(md, filter) ==
  IF md.t = "null" \/ filter.t = "null" THEN "n"
  ELSE SqlBool(md.t = "o" /\ filter.t = "o" /\ DOMAIN filter.v \subseteq DOMAIN md.v)

\* embeddedinfo.metadata @> filter
SqlContains(md, filter) ==
  IF md.t = "null" \/ filter.t = "null" THEN "n"
  ELSE SqlBool(JsonContains(md, filter))

\* Variant: a similarity equal to the threshold passes.
AboveThreshold_Inclusive(sim, thr) == SqlBool(sim >= thr)

\* 1 - (embedding <=> query_embedding) > match_threshold
AboveThreshold(sim, thr) == SqlBool(sim > thr)

\* The WHERE clause of match_information.
Qualifies(row, q, thr, filter) ==
  SqlAnd(SqlOr(SqlBool(filter.t = "null"), SqlContains(row.metadata, filter)),
         AboveThreshold(Similarity(row, q), thr)) = "t"

\* Variant: no ORDER BY, the rows come in any order.
RECURSIVE NearestFirst_Unordered(_, _, _)
NearestFirst_Unordered(rows, cand, q) ==
  IF cand = {} THEN { <<>> }
  ELSE UNION { { << k >> \o o : o \in NearestFirst_Unordered(rows, cand \ {k}, q) } :
               k \in cand }

\* ORDER BY embedding <=> query_embedding: the orders of the candidate row
\* indexes by ascending distance; rows at the same distance in any order.
RECURSIVE NearestFirst(_, _, _)
NearestFirst(rows, cand, q) ==
  IF cand = {} THEN { <<>> }
  ELSE UNION { { << k >> \o o : o \in NearestFirst(rows, cand \ {k}, q) } :
               k \in { k \in cand : \A j \in cand :
                         CosineDistance(rows[k].embedding, q)
                           <= CosineDistance(rows[j].embedding, q) } }

\* LIMIT match_count
Limit(order, n) == SubSeq(order, 1, Min(n, Len(order)))

\* The SELECT list of match_information.
ResultRow(row, q) ==
  [id |-> row.id, content |-> row.content, metadata |-> row.metadata,
   similarity |-> Similarity(row, q)]

\* match_information(query_embedding, match_count, match_threshold, filter):
\* the result tables the query can return.
match_information(rows, q, count, thr, filter) ==
  LET cand == { k \in 1 .. Len(rows) : Qualifies(rows[k], q, thr, filter) }
  IN { [j \in 1 .. Len(o) |-> ResultRow(rows[o[j]], q)] :
         o \in { Limit(full, count) : full \in NearestFirst(rows, cand, q) } }

\* if (metadataFilter) rpcParams.filter = metadataFilter; the SQL default
\* of filter is NULL.
Truthy(j) == j.t # "null"
RpcFilter(metadataFilter) == IF Truthy(metadataFilter) THEN metadataFilter ELSE JNull

\* Inputs of the retrieval model.
RowEmbeddings == {0, 1, 3}
QueryEmbeddings == {0}
Thresholds == {0, 1, 5}
RowMetadata ==
  { JNull,
    Obj([location |-> Str("FL"), skills |-> Arr({Str("js"), Str("py")})]),
    Obj([location |-> Str("NY"), skills |-> Arr({Str("js")})]) }
Filters ==
  { JNull,
    Obj(NoFields),
    Obj([location |-> Str("FL")]),
    Obj([skills |-> Arr({Str("js")})]) }

\* The tables of up to n rows; ids are assigned in insertion order.
RECURSIVE TablesOfLen(_)
TablesOfLen(n) ==
  IF n = 0 THEN { <<>> }
  ELSE { Append(t, [id |-> n, filename |-> FileName(n), content |-> << "a" >>,
                    metadata |-> md, embedding |-> e, by |-> 0]) :
           t \in TablesOfLen(n - 1), md \in RowMetadata, e \in RowEmbeddings }

Tables == UNION { TablesOfLen(n) : n \in 0 .. MaxRows }

InitRetrieve ==
  /\ ChunkIdle
  /\ store \in Tables
  /\ nextId = Len(store) + 1
  /\ arrays = << <<>> >>
  /\ embeddedResults = 1
  /\ run = [r \in RunIds |-> IdleRun]
  /\ calls = <<>>
  /\ retrieval = NoRetrieval
  /\ api = NoRequest

\* Variant: the search is issued although the embedding call failed.
Retrieved_SearchAfterEmbeddingFailure(rows, q, matchCount, matchThreshold, metadataFilter, embOk, searchOk) ==
  { [called |-> TRUE, query |-> q, matchCount |-> matchCount,
     matchThreshold |-> matchThreshold, metadataFilter |-> metadataFilter,
     hasData |-> searchOk,
     data |-> data,
     error |-> IF ~embOk THEN "embedding" ELSE IF ~searchOk THEN "search" ELSE "",
     hasEmbedding |-> embOk,
     searched |-> TRUE] :
    data \in (IF searchOk
              THEN match_information(rows, q, matchCount, matchThreshold,
                                     RpcFilter(metadataFilter))
              ELSE { <<>> }) }

\* retrieveInformation(userQuery, matchCount, matchThreshold, metadataFilter):
\* the values it can return over the table rows. q is the embedding of
\* userQuery; embOk and searchOk tell whether the embedding call and the
\* RPC succeed. hasData is FALSE for data: null; searched tells whether the
\* RPC was issued.
Retrieved(rows, q, matchCount, matchThreshold, metadataFilter, embOk, searchOk) ==
  { [called |-> TRUE, query |-> q, matchCount |-> matchCount,
     matchThreshold |-> matchThreshold, metadataFilter |-> metadataFilter,
     hasData |-> embOk /\ searchOk,
     data |-> data,
     error |-> IF ~embOk THEN "embedding" ELSE IF ~searchOk THEN "search" ELSE "",
     hasEmbedding |-> embOk,
     searched |-> embOk] :
    data \in (IF embOk /\ searchOk
              THEN match_information(rows, q, matchCount, matchThreshold,
                                     RpcFilter(metadataFilter))
              ELSE { <<>> }) }

\* One call of retrieveInformation.
retrieveInformation(q, matchCount, matchThreshold, metadataFilter, embOk, searchOk) ==
  /\ ~retrieval.called
  /\ ~embOk => searchOk
  /\ retrieval' \in Retrieved(store, q, matchCount, matchThreshold,
                               metadataFilter, embOk, searchOk)
  /\ UNCHANGED << chunkVars, ingestVars, api >>

NextRetrieve ==
  \E q \in QueryEmbeddings, n \in 0 .. MaxMatchCount, thr \in Thresholds,
     f \in Filters, embOk \in BOOLEAN, searchOk \in BOOLEAN :
    retrieveInformation(q, n, thr, f, embOk, searchOk)

SpecRetrieve == InitRetrieve /\ [][NextRetrieve]_vars

\* ------------------------------------------------------------------------
\* A query while an ingestion run is in progress
\* ------------------------------------------------------------------------
\* One call of retrieveInformation against the store as it is at that
\* moment; the call is entered in the call history.
QueryDuringIngestion(q, matchThreshold, embOk, searchOk) ==
  /\ ~retrieval.called
  /\ ~embOk => searchOk
  /\ retrieval' \in Retrieved(store, q, MaxMatchCount, matchThreshold,
                               JNull, embOk, searchOk)
  /\ calls' = Append(calls, Call(0, "query", "", -1, embOk /\ searchOk))
  /\ UNCHANGED << store, nextId, arrays, embeddedResults, run >>
  /\ UNCHANGED << chunkVars, api >>

\* One run over a directory of at most one file, and one query at any
\* moment before, during or after it.
NextWindow ==
  \/ \E cf \in BOOLEAN : Start(TheRun, cf)
  \/ \E ok \in BOOLEAN : ClearDatabase(TheRun, ok)
  \/ \E ok \in BOOLEAN, fs \in SeqFileLists : ReadInfoFiles(TheRun, ok, fs)
  \/ \E ok \in BOOLEAN : ExtractMetadata(TheRun, ok, NoFields)
  \/ \E ok \in BOOLEAN : GenerateEmbedding(TheRun, ok)
  \/ \E ok \in BOOLEAN : InsertRecord(TheRun, ok)
  \/ \E q \in QueryEmbeddings, thr \in Thresholds,
        embOk \in BOOLEAN, searchOk \in BOOLEAN :
       QueryDuringIngestion(q, thr, embOk, searchOk)

SpecWindow == Init /\ [][NextWindow]_vars

\* ------------------------------------------------------------------------
\* Retrieval properties
\* ------------------------------------------------------------------------
Got == retrieval.called /\ retrieval.hasData
Data == retrieval.data
DataIds == { Data[j].id : j \in 1 .. Len(Data) }
StoreIdx == 1 .. Len(store)
Sim(k) == Similarity(store[k], retrieval.query)
FilterSupplied == retrieval.metadataFilter.t # "null"

\* C8: every returned row has a similarity strictly greater than the
\* matchThreshold passed; a candidate whose similarity equals the
\* threshold is never returned.
C8_StrictlyAboveThreshold ==
  Got =>
    /\ \A j \in 1 .. Len(Data) : Data[j].similarity > retrieval.matchThreshold
    /\ \A k \in StoreIdx :
         Sim(k) = retrieval.matchThreshold => store[k].id \notin DataIds

\* C8 witness: a stored row whose similarity equals the threshold is left
\* out although the result has room for it, and another row is returned.
C8_Witness ==
  /\ Got
  /\ ~FilterSupplied
  /\ Len(Data) >= 1
  /\ Len(Data) < retrieval.matchCount
  /\ \E k \in StoreIdx : Sim(k) = retrieval.matchThreshold /\ store[k].id \notin DataIds

\* The rows that pass the threshold and the filter.
Eligible(k) ==
  /\ Sim(k) > retrieval.matchThreshold
  /\ FilterSupplied =>
       /\ store[k].metadata.t = "o"
       /\ JsonContains(store[k].metadata, retrieval.metadataFilter)

\* C9: the result is the first min(matchCount, number of qualifying rows)
\* qualifying rows by similarity descending: it is sorted by non-increasing
\* similarity, not longer than matchCount, and no qualifying row left out
\* has a strictly higher similarity than a returned one.
C9_TopMatches ==
  Got =>
    LET qual == { k \in StoreIdx : Eligible(k) }
    IN /\ Len(Data) = Min(retrieval.matchCount, Cardinality(qual))
       /\ Len(Data) <= retrieval.matchCount
       /\ DataIds \subseteq { store[k].id : k \in qual }
       /\ Cardinality(DataIds) = Len(Data)
       /\ \A i, j \in 1 .. Len(Data) :
            i < j => Data[i].similarity >= Data[j].similarity
       /\ \A k \in qual : \A j \in 1 .. Len(Data) :
            store[k].id \notin DataIds => Sim(k) <= Data[j].similarity

\* C9 witness: more qualifying rows than matchCount; two rows of different
\* similarity are returned and a qualifying row is left out.
C9_Witness ==
  /\ Got
  /\ Len(Data) = 2
  /\ retrieval.matchCount = 2
  /\ Data[1].similarity > Data[2].similarity
  /\ \E k \in StoreIdx : Eligible(k) /\ store[k].id \notin DataIds

\* Without a filter the rows that qualify are those above the threshold.
NoFilterIgnoresMetadata ==
  ~FilterSupplied =>
    /\ DataIds \subseteq { store[k].id : k \in { i \in StoreIdx : Sim(i) > retrieval.matchThreshold } }
    /\ Len(Data) = Min(retrieval.matchCount,
                       Cardinality({ k \in StoreIdx : Sim(k) > retrieval.matchThreshold }))

\* C10 (as stated): with a metadataFilter every returned record's metadata
\* has every key of the filter with an equal value (records with null
\* metadata are never returned); without a filter metadata plays no part.
C10_AsStated ==
  Got =>
    /\ FilterSupplied =>
         \A j \in 1 .. Len(Data) :
           /\ Data[j].metadata.t = "o"
           /\ \A key \in DOMAIN retrieval.metadataFilter.v :
                /\ key \in DOMAIN Data[j].metadata.v
                /\ Data[j].metadata.v[key] = retrieval.metadataFilter.v[key]
    /\ NoFilterIgnoresMetadata

\* C10 (amended): with a metadataFilter every returned record's metadata
\* has every key of the filter with a value that contains the filter's
\* value: an equal value for a scalar, an array with at least the filter's
\* elements for an array (records with null metadata are never returned);
\* without a filter metadata plays no part.
C10_FilterContainment ==
  Got =>
    /\ FilterSupplied =>
         \A j \in 1 .. Len(Data) :
           /\ Data[j].metadata.t = "o"
           /\ \A key \in DOMAIN retrieval.metadataFilter.v :
                /\ key \in DOMAIN Data[j].metadata.v
                /\ JsonContains(Data[j].metadata.v[key],
                                retrieval.metadataFilter.v[key])
    /\ NoFilterIgnoresMetadata

\* C10 witness: an array-valued filter returns a record whose array has
\* more elements, and a row with null metadata above the threshold is
\* left out although the result has room for it.
C10_Witness ==
  /\ Got
  /\ FilterSupplied
  /\ Len(Data) < retrieval.matchCount
  /\ \E j \in 1 .. Len(Data) :
       \E key \in DOMAIN retrieval.metadataFilter.v :
         /\ retrieval.metadataFilter.v[key].t = "a"
         /\ Data[j].metadata.v[key] # retrieval.metadataFilter.v[key]
  /\ \E k \in StoreIdx :
       /\ store[k].metadata.t = "null"
       /\ Sim(k) > retrieval.matchThreshold

RECURSIVE TextsUpTo(_)
TextsUpTo(n) ==
  IF n = 0 THEN { <<>> }
  ELSE LET shorter == TextsUpTo(n - 1)
       IN shorter \cup { Append(t, c) : t \in { s \in shorter : Len(s) = n - 1 }, c \in Chars }

Texts == TextsUpTo(MaxTextLen)

\* ------------------------------------------------------------------------
\* Chunker specification: inputs drawn from bounded sets, one call
\* ------------------------------------------------------------------------
InitChunk ==
  /\ \/ /\ cText \in Texts
        /\ cChunkSize \in 1 .. MaxChunkSize
        /\ cOverlap \in 0 .. MaxChunkSize
     \/ /\ cText = ExampleText
        /\ cChunkSize = DefaultChunkSize
        /\ cOverlap = DefaultOverlap
  /\ cChunks = <<>>
  /\ cPc = "call"
  /\ IngestIdle
  /\ retrieval = NoRetrieval
  /\ api = NoRequest

CallChunkText ==
  /\ cPc = "call"
  /\ cChunks' = chunkText(cText, cChunkSize, cOverlap)
  /\ cPc' = "returned"
  /\ UNCHANGED << cText, cChunkSize, cOverlap >>
  /\ UNCHANGED << ingestVars, retrieval, api >>

NextChunk == CallChunkText

SpecChunk == InitChunk /\ [][NextChunk]_vars

\* ------------------------------------------------------------------------
\* Chunker properties
\* ------------------------------------------------------------------------
CeilDiv(a, b) == (a + b - 1) \div b

NWords == Len(Words(cText))
Step == cChunkSize - cOverlap
ChunkReturned == cPc = "returned" /\ cOverlap < cChunkSize
ChunkWordCount(i) == Len(Words(cChunks[i]))

\* C5 (as stated): with N words, chunkSize C and overlap O < C, chunkText
\* returns ceil((N-C)/(C-O)) + 1 chunks when N > C and 1 chunk otherwise.
C5_AsStated ==
  ChunkReturned =>
    Len(cChunks) = IF NWords > cChunkSize
                   THEN CeilDiv(NWords - cChunkSize, Step) + 1
                   ELSE 1

\* C5 (amended): with N words, chunkSize C and overlap O < C, chunkText
\* returns ceil(N/(C-O)) chunks when N > C (one per window start below N)
\* and 1 chunk otherwise.
C5_ChunkCount ==
  ChunkReturned =>
    Len(cChunks) = IF NWords > cChunkSize
                   THEN CeilDiv(NWords, Step)
                   ELSE 1

\* C5 witness: a text longer than one window, chunked with a positive
\* overlap, for which the window count exceeds the stated formula.
C5_Witness ==
  /\ ChunkReturned
  /\ NWords > cChunkSize
  /\ cOverlap > 0
  /\ Len(cChunks) = CeilDiv(NWords, Step)
  /\ Len(cChunks) > CeilDiv(NWords - cChunkSize, Step) + 1

\* C6 (as stated): for overlap < chunkSize every chunk except possibly the
\* last one has exactly chunkSize words.
C6_AsStated ==
  ChunkReturned =>
    \A i \in 1 .. Len(cChunks) - 1 : ChunkWordCount(i) = cChunkSize

IsTail(w, all) ==
  /\ Len(w) <= Len(all)
  /\ w = SubSeq(all, Len(all) - Len(w) + 1, Len(all))

\* C6 (amended): for overlap < chunkSize no chunk has more than chunkSize
\* words, and a chunk has fewer only if it runs to the last word of the
\* text; the short chunks are the trailing ones of the sequence (there
\* can be several of them when overlap > 0).
C6_ChunkLength ==
  ChunkReturned =>
    \A i \in 1 .. Len(cChunks) :
      /\ ChunkWordCount(i) <= cChunkSize
      /\ ChunkWordCount(i) < cChunkSize =>
           /\ IsTail(Words(cChunks[i]), Words(cText))
           /\ \A j \in i .. Len(cChunks) : ChunkWordCount(j) < cChunkSize

\* C6 witness: a chunk that is not the last one is shorter than chunkSize.
C6_Witness ==
  /\ ChunkReturned
  /\ \E i \in 1 .. Len(cChunks) - 1 :
       /\ ChunkWordCount(i) < cChunkSize
       /\ ChunkWordCount(i) > 0

DropFirst(w, k) == SubSeq(w, k + 1, Len(w))

RECURSIVE Cores(_, _, _)
Cores(chs, ov, i) ==
  IF i > Len(chs) THEN <<>>
  ELSE (IF i = 1 THEN Words(chs[i]) ELSE DropFirst(Words(chs[i]), ov))
       \o Cores(chs, ov, i + 1)

DeOverlap(chs, ov) == Cores(chs, ov, 1)

\* C7: for overlap < chunkSize, the first chunk's words followed by every
\* later chunk's words without its first `overlap` words is exactly the
\* word sequence of the text.
C7_DeOverlapReconstructs ==
  ChunkReturned => DeOverlap(cChunks, cOverlap) = Words(cText)

\* C7 witness: three or more overlapping chunks of a text with two
\* different words, the last chunk no longer than the overlap.
C7_Witness ==
  /\ ChunkReturned
  /\ cOverlap > 0
  /\ Len(cChunks) >= 3
  /\ ChunkWordCount(Len(cChunks)) <= cOverlap
  /\ \E i, j \in 1 .. NWords : Words(cText)[i] # Words(cText)[j]


\* ------------------------------------------------------------------------
\* Query endpoints: validation, the retrieval wrappers and the responses
\* ------------------------------------------------------------------------
MaxApiRows == 2

\* !x for the JavaScript values of a request body
Falsy(x) ==
  \/ x.t \in {"undefined", "null"}
  \/ x.t = "n" /\ x.v = 0
  \/ x.t = "s" /\ Len(x.v) = 0

\* !x || typeof x !== 'string' || x.trim() === ''
InvalidText(x) == Falsy(x) \/ x.t # "s" \/ Trim(x.v) = <<>>

\* { [field]: value }
FieldFilter(field, value) == Obj([key \in {field} |-> value])

\* retrieveByMetadataField(userQuery, field, value, matchCount)
retrieveByMetadataField(rows, q, field, value, matchCount, embOk, searchOk) ==
  Retrieved(rows, q, matchCount, 0, FieldFilter(field, value), embOk, searchOk)

\* retrieveByName(name, matchCount); q is the embedding of
\* `Information about ${name}`
retrieveByName(rows, q, name, matchCount, embOk, searchOk) ==
  Retrieved(rows, q, matchCount, 0, Obj([name |-> name]), embOk, searchOk)

\* matchCount of /api/query/by-name: parseInt(req.query.matchCount) || 10
NameMatchCount(n) == IF n = 0 THEN 10 ELSE n

\* res.status(400).json({ success: false, ... })
Rejected(endpoint, input) ==
  [NoRequest EXCEPT !.endpoint = endpoint, !.input = input, !.status = 400]

\* The response of a search endpoint to the value retrieval returned.
SearchResponse_ErrorOnEmpty(endpoint, input, ret) ==
  LET formattedResults == IF ret.hasData THEN ret.data ELSE <<>>
      failed == ret.error # "" \/ Len(formattedResults) = 0
  IN [NoRequest EXCEPT !.endpoint = endpoint, !.input = input,
                       !.status = IF failed THEN 500 ELSE 200,
                       !.success = ~failed,
                       !.result = IF failed THEN NoFields
                                  ELSE [resultCount |-> Len(formattedResults)]]

\* The body of the response: resultCount is the length of the formatted
\* results, which are [] when the retriever returned no list.
SearchResponse(endpoint, input, ret) ==
  LET formattedResults == IF ret.hasData THEN ret.data ELSE <<>>
  IN [NoRequest EXCEPT !.endpoint = endpoint, !.input = input,
                       !.status = IF ret.error # "" THEN 500 ELSE 200,
                       !.success = (ret.error = ""),
                       !.result = IF ret.error # "" THEN NoFields
                                  ELSE [resultCount |-> Len(formattedResults)]]

\* Request inputs.
QueryInputs == { JUndef, Num(7), Str(<<>>), Str(<< " " >>), Str(<< " ", "a" >>) }
NameInputs == { Str(<< " " >>), Str(<< "a" >>), Str(<< " ", "b" >>) }
FieldInputs == { JUndef, Str("location") }
ValueInputs == { JUndef, Str("FL") }
ApiFilters == { JNull, Obj([location |-> Str("FL")]) }

\* Metadata as ingestion writes it: with a name and, unless the record is
\* older than that field, the source filename.
ApiRowMetadata ==
  { JNull,
    Obj([name |-> Str(<< "a" >>), location |-> Str("FL"),
         skills |-> Arr({Str("js"), Str("py")}),
         source_filename |-> Str("f1.txt")]),
    Obj([name |-> Str(<< "b" >>), location |-> Str("NY"),
         skills |-> Arr({Str("js")})]) }

\* The tables of n rows with metadata from mds; row n has n words.
RECURSIVE TablesWith(_, _)
TablesWith(n, mds) ==
  IF n = 0 THEN { <<>> }
  ELSE { Append(t, [id |-> n, filename |-> FileName(n), content |-> MkText(n),
                    metadata |-> md, embedding |-> e, by |-> 0]) :
           t \in TablesWith(n - 1, mds), md \in mds, e \in RowEmbeddings }

ApiTables == UNION { TablesWith(n, ApiRowMetadata) : n \in 0 .. MaxApiRows }

InitApi ==
  /\ ChunkIdle
  /\ store \in ApiTables
  /\ nextId = Len(store) + 1
  /\ arrays = << <<>> >>
  /\ embeddedResults = 1
  /\ run = [r \in RunIds |-> IdleRun]
  /\ calls = <<>>
  /\ retrieval = NoRetrieval
  /\ api = NoRequest

\* POST /api/query
handleQuery(query, matchCount, matchThreshold, metadataFilter, q, embOk, searchOk) ==
  /\ api.endpoint = "none"
  /\ ~embOk => searchOk
  /\ IF InvalidText(query)
     THEN /\ api' = Rejected("query", query)
          /\ UNCHANGED retrieval
     ELSE /\ retrieval' \in Retrieved(store, q, matchCount, matchThreshold,
                                      metadataFilter, embOk, searchOk)
          /\ api' = SearchResponse("query", query, retrieval')
  /\ UNCHANGED << chunkVars, ingestVars >>

\* POST /api/query/by-field
handleQueryByField(query, field, value, matchCount, q, embOk, searchOk) ==
  /\ api.endpoint = "none"
  /\ ~embOk => searchOk
  /\ IF Falsy(query) \/ Falsy(field) \/ Falsy(value)
     THEN /\ api' = Rejected("by-field", query)
          /\ UNCHANGED retrieval
     ELSE /\ retrieval' \in retrieveByMetadataField(store, q, field.v, value,
                                                    matchCount, embOk, searchOk)
          /\ api' = SearchResponse("by-field", query, retrieval')
  /\ UNCHANGED << chunkVars, ingestVars >>

\* GET /api/query/by-name/:name
handleQueryByName(name, matchCount, q, embOk, searchOk) ==
  /\ api.endpoint = "none"
  /\ ~embOk => searchOk
  /\ IF Falsy(name) \/ Trim(name.v) = <<>>
     THEN /\ api' = Rejected("by-name", name)
          /\ UNCHANGED retrieval
     ELSE /\ retrieval' \in retrieveByName(store, q, Str(Trim(name.v)),
                                           NameMatchCount(matchCount),
                                           embOk, searchOk)
          /\ api' = SearchResponse("by-name", name, retrieval')
  /\ UNCHANGED << chunkVars, ingestVars >>


\* ------------------------------------------------------------------------
\* Answers: getAnswer, constructPromptContext and getEnhancedAnswer
\* ------------------------------------------------------------------------
MaxAnswerRows == 4

AnswerMatchCount == 3
AnswerThreshold == SimScale \div 10
PreviewLen == 200
CannedAnswer == Str("I couldn't find any relevant information")
GeneratedAnswer == Str("generated")

\* metadata?.source_filename || fallback
SourceOf(md, fallback) ==
  IF md.t = "o" /\ "source_filename" \in DOMAIN md.v
     /\ ~Falsy(md.v["source_filename"])
  THEN md.v["source_filename"]
  ELSE Str(fallback)

\* result.error || !result.data || result.data.length === 0
NothingRetrieved(ret) == ret.error # "" \/ ~ret.hasData \/ Len(ret.data) = 0

\* Variant: an empty result is returned without an error.
getAnswer_NoErrorOnEmpty(rows, q, embOk, searchOk) ==
  { [ret |-> ret,
     result |->
       IF NothingRetrieved(ret)
       THEN [answer |-> JNull, hasContext |-> FALSE, similarity |-> 0,
             metadata |-> JNull, source |-> JNull,
             error |-> ret.error]
       ELSE LET bestMatch == ret.data[1]
            IN [answer |-> Str(bestMatch.content), hasContext |-> TRUE,
                similarity |-> bestMatch.similarity,
                metadata |-> bestMatch.metadata,
                source |-> SourceOf(bestMatch.metadata, "unknown"),
                error |-> ""]] :
    ret \in Retrieved(rows, q, AnswerMatchCount, AnswerThreshold, JNull,
                      embOk, searchOk) }

\* Variant: the last retrieved record is taken as the best match.
getAnswer_LastMatch(rows, q, embOk, searchOk) ==
  { [ret |-> ret,
     result |->
       IF NothingRetrieved(ret)
       THEN [answer |-> JNull, hasContext |-> FALSE, similarity |-> 0,
             metadata |-> JNull, source |-> JNull,
             error |-> IF ret.error # "" THEN ret.error ELSE "not found"]
       ELSE LET bestMatch == ret.data[Len(ret.data)]
            IN [answer |-> Str(bestMatch.content), hasContext |-> TRUE,
                similarity |-> bestMatch.similarity,
                metadata |-> bestMatch.metadata,
                source |-> SourceOf(bestMatch.metadata, "unknown"),
                error |-> ""]] :
    ret \in Retrieved(rows, q, AnswerMatchCount, AnswerThreshold, JNull,
                      embOk, searchOk) }

\* getAnswer(question): the retrieval it makes and the value it returns.
getAnswer(rows, q, embOk, searchOk) ==
  { [ret |-> ret,
     result |->
       IF NothingRetrieved(ret)
       THEN [answer |-> JNull, hasContext |-> FALSE, similarity |-> 0,
             metadata |-> JNull, source |-> JNull,
             error |-> IF ret.error # "" THEN ret.error ELSE "not found"]
       ELSE LET bestMatch == ret.data[1]
            IN [answer |-> Str(bestMatch.content), hasContext |-> TRUE,
                similarity |-> bestMatch.similarity,
                metadata |-> bestMatch.metadata,
                source |-> SourceOf(bestMatch.metadata, "unknown"),
                error |-> ""]] :
    ret \in Retrieved(rows, q, AnswerMatchCount, AnswerThreshold, JNull,
                      embOk, searchOk) }

\* The metadata fields constructPromptContext prints for a record.
PromptMetadata(md) ==
  IF md.t # "o" THEN NoFields
  ELSE [key \in { k \in DOMAIN md.v :
                    \/ k \in {"name", "location", "role"} /\ ~Falsy(md.v[k])
                    \/ k = "skills" /\ md.v[k].t = "a" } |-> md.v[key]]

\* constructPromptContext(question, retrievedResults): one labelled section
\* per record, in the order of retrievedResults.
constructPromptContext(retrievedResults) ==
  [index \in 1 .. Len(retrievedResults) |->
     LET result == retrievedResults[index]
     IN [label |-> index,
         source |-> SourceOf(result.metadata, "Unknown source"),
         similarity |-> result.similarity,
         content |-> result.content,
         metadata |-> PromptMetadata(result.metadata)]]

\* item.content.substring(0, 200) + (item.content.length > 200 ? "..." : "")
ContentPreview(content) ==
  IF Len(content) > PreviewLen
  THEN SubSeq(content, 1, PreviewLen) \o << ".", ".", "." >>
  ELSE content

\* Variant: the sources are numbered from 0.
FormatSources_ZeroBased(data) ==
  [index \in 1 .. Len(data) |->
     LET item == data[index]
     IN [sourceNumber |-> index - 1,
         filename |-> SourceOf(item.metadata, "Unknown"),
         similarity |-> item.similarity,
         contentPreview |-> ContentPreview(item.content),
         metadata |-> IF item.metadata.t = "null" THEN Obj(NoFields)
                      ELSE item.metadata]]

\* result.data.map((item, index) => ({ sourceNumber: index + 1, ... }))
FormatSources(data) ==
  [index \in 1 .. Len(data) |->
     LET item == data[index]
     IN [sourceNumber |-> index,
         filename |-> SourceOf(item.metadata, "Unknown"),
         similarity |-> item.similarity,
         contentPreview |-> ContentPreview(item.content),
         metadata |-> IF item.metadata.t = "null" THEN Obj(NoFields)
                      ELSE item.metadata]]


\* What the generation call can do: answer, answer with empty content, throw.
Generations == { "ok", "empty", "throw" }

\* Variant: an error of the retriever is returned to the caller.
getEnhancedAnswer_PropagateError(rows, q, matchCount, matchThreshold, embOk, searchOk, gen) ==
  { [ret |-> ret,
     generated |-> ~NothingRetrieved(ret),
     generation |-> IF ~NothingRetrieved(ret) THEN gen ELSE "none",
     prompt |-> IF ~NothingRetrieved(ret) THEN constructPromptContext(ret.data) ELSE <<>>,
     result |->
       IF ret.error # ""
       THEN [answer |-> JNull, hasSources |-> FALSE, sources |-> <<>>,
             hasContext |-> FALSE, retrievedCount |-> 0, error |-> ret.error]
       ELSE IF NothingRetrieved(ret)
       THEN [answer |-> CannedAnswer, hasSources |-> TRUE, sources |-> <<>>,
             hasContext |-> TRUE, retrievedCount |-> 0, error |-> ""]
       ELSE IF gen # "ok"
       THEN [answer |-> JNull, hasSources |-> FALSE, sources |-> <<>>,
             hasContext |-> FALSE, retrievedCount |-> 0, error |-> gen]
       ELSE [answer |-> GeneratedAnswer, hasSources |-> TRUE,
             sources |-> FormatSources(ret.data),
             hasContext |-> TRUE, retrievedCount |-> Len(ret.data),
             error |-> ""]] :
    ret \in Retrieved(rows, q, matchCount, matchThreshold, JNull,
                      embOk, searchOk) }

\* Variant: the generation model is called also when the result is empty.
getEnhancedAnswer_GenerateOnEmpty(rows, q, matchCount, matchThreshold, embOk, searchOk, gen) ==
  { [ret |-> ret,
     generated |-> ret.error = "" /\ ret.hasData,
     generation |-> IF ret.error = "" /\ ret.hasData THEN gen ELSE "none",
     prompt |-> IF ret.error = "" /\ ret.hasData THEN constructPromptContext(ret.data) ELSE <<>>,
     result |->
       IF ~(ret.error = "" /\ ret.hasData)
       THEN [answer |-> CannedAnswer, hasSources |-> TRUE, sources |-> <<>>,
             hasContext |-> TRUE, retrievedCount |-> 0, error |-> ""]
       ELSE IF gen # "ok"
       THEN [answer |-> JNull, hasSources |-> FALSE, sources |-> <<>>,
             hasContext |-> FALSE, retrievedCount |-> 0, error |-> gen]
       ELSE [answer |-> GeneratedAnswer, hasSources |-> TRUE,
             sources |-> FormatSources(ret.data),
             hasContext |-> TRUE, retrievedCount |-> Len(ret.data),
             error |-> ""]] :
    ret \in Retrieved(rows, q, matchCount, matchThreshold, JNull,
                      embOk, searchOk) }

\* getEnhancedAnswer(question, matchCount, matchThreshold): the retrieval it
\* makes, whether it calls the generation model and with which context, and
\* the value it returns (error "" stands for null).
getEnhancedAnswer(rows, q, matchCount, matchThreshold, embOk, searchOk, gen) ==
  { [ret |-> ret,
     generated |-> ~NothingRetrieved(ret),
     generation |-> IF ~NothingRetrieved(ret) THEN gen ELSE "none",
     prompt |-> IF ~NothingRetrieved(ret) THEN constructPromptContext(ret.data) ELSE <<>>,
     result |->
       IF ~(~NothingRetrieved(ret))
       THEN [answer |-> CannedAnswer, hasSources |-> TRUE, sources |-> <<>>,
             hasContext |-> TRUE, retrievedCount |-> 0, error |-> ""]
       ELSE IF gen # "ok"
       THEN [answer |-> JNull, hasSources |-> FALSE, sources |-> <<>>,
             hasContext |-> FALSE, retrievedCount |-> 0, error |-> gen]
       ELSE [answer |-> GeneratedAnswer, hasSources |-> TRUE,
             sources |-> FormatSources(ret.data),
             hasContext |-> TRUE, retrievedCount |-> Len(ret.data),
             error |-> ""]] :
    ret \in Retrieved(rows, q, matchCount, matchThreshold, JNull,
                      embOk, searchOk) }

\* POST /api/query/answer
handleGetAnswer(question, q, embOk, searchOk) ==
  /\ api.endpoint = "none"
  /\ ~embOk => searchOk
  /\ IF InvalidText(question)
     THEN /\ api' = Rejected("answer", question)
          /\ UNCHANGED retrieval
     ELSE \E o \in getAnswer(store, q, embOk, searchOk) :
            /\ retrieval' = o.ret
            /\ api' = [NoRequest EXCEPT !.endpoint = "answer",
                                        !.input = question,
                                        !.status = IF o.result.error # "" THEN 404 ELSE 200,
                                        !.success = (o.result.error = ""),
                                        !.result = o.result]
  /\ UNCHANGED << chunkVars, ingestVars >>

\* Variant: the endpoint answers 200 whatever getEnhancedAnswer returned.
handleEnhancedAnswer_AlwaysOk(question, matchCount, matchThreshold, q, embOk, searchOk, gen) ==
  /\ api.endpoint = "none"
  /\ ~embOk => searchOk
  /\ IF InvalidText(question)
     THEN /\ api' = Rejected("enhanced", question)
          /\ UNCHANGED retrieval
     ELSE \E o \in getEnhancedAnswer(store, q, matchCount, matchThreshold,
                                     embOk, searchOk, gen) :
            /\ retrieval' = o.ret
            /\ api' = [endpoint |-> "enhanced", input |-> question,
                       status |-> 200,
                       success |-> TRUE,
                       generated |-> o.generated,
                       generation |-> o.generation, prompt |-> o.prompt,
                       result |-> o.result]
  /\ UNCHANGED << chunkVars, ingestVars >>

\* POST /api/query/enhanced
handleEnhancedAnswer(question, matchCount, matchThreshold, q, embOk, searchOk, gen) ==
  /\ api.endpoint = "none"
  /\ ~embOk => searchOk
  /\ IF InvalidText(question)
     THEN /\ api' = Rejected("enhanced", question)
          /\ UNCHANGED retrieval
     ELSE \E o \in getEnhancedAnswer(store, q, matchCount, matchThreshold,
                                     embOk, searchOk, gen) :
            /\ retrieval' = o.ret
            /\ api' = [endpoint |-> "enhanced", input |-> question,
                       status |-> IF o.result.error # "" THEN 500 ELSE 200,
                       success |-> (o.result.error = ""),
                       generated |-> o.generated,
                       generation |-> o.generation, prompt |-> o.prompt,
                       result |-> o.result]
  /\ UNCHANGED << chunkVars, ingestVars >>

NextApi ==
  \/ \E query \in QueryInputs, n \in 0 .. MaxMatchCount, thr \in Thresholds,
        f \in ApiFilters, q \in QueryEmbeddings, embOk \in BOOLEAN, searchOk \in BOOLEAN :
       handleQuery(query, n, thr, f, q, embOk, searchOk)
  \/ \E query \in QueryInputs, field \in FieldInputs, value \in ValueInputs,
        n \in 0 .. MaxMatchCount, q \in QueryEmbeddings,
        embOk \in BOOLEAN, searchOk \in BOOLEAN :
       handleQueryByField(query, field, value, n, q, embOk, searchOk)
  \/ \E name \in NameInputs, n \in 0 .. MaxMatchCount, q \in QueryEmbeddings,
        embOk \in BOOLEAN, searchOk \in BOOLEAN :
       handleQueryByName(name, n, q, embOk, searchOk)
  \/ \E question \in QueryInputs, q \in QueryEmbeddings,
        embOk \in BOOLEAN, searchOk \in BOOLEAN :
       handleGetAnswer(question, q, embOk, searchOk)
  \/ \E question \in QueryInputs, n \in 0 .. MaxMatchCount, thr \in Thresholds,
        q \in QueryEmbeddings, embOk \in BOOLEAN, searchOk \in BOOLEAN,
        gen \in Generations :
       handleEnhancedAnswer(question, n, thr, q, embOk, searchOk, gen)

SpecApi == InitApi /\ [][NextApi]_vars

\* getAnswer over larger tables, so that more than AnswerMatchCount rows
\* can qualify.
AnswerTables ==
  UNION { TablesWith(n, ApiRowMetadata \ {JNull}) : n \in 0 .. MaxAnswerRows }

InitAnswer ==
  /\ ChunkIdle
  /\ store \in AnswerTables
  /\ nextId = Len(store) + 1
  /\ arrays = << <<>> >>
  /\ embeddedResults = 1
  /\ run = [r \in RunIds |-> IdleRun]
  /\ calls = <<>>
  /\ retrieval = NoRetrieval
  /\ api = NoRequest

NextAnswer ==
  \E question \in QueryInputs, q \in QueryEmbeddings,
     embOk \in BOOLEAN, searchOk \in BOOLEAN :
    handleGetAnswer(question, q, embOk, searchOk)

SpecAnswer == InitAnswer /\ [][NextAnswer]_vars


\* ------------------------------------------------------------------------
\* Endpoint and answer properties
\* ------------------------------------------------------------------------
Handled == api.endpoint # "none"
ByFilter == api.endpoint \in {"by-field", "by-name"} /\ Got
MatchesFilter(k) ==
  /\ store[k].metadata.t = "o"
  /\ JsonContains(store[k].metadata, retrieval.metadataFilter)

\* C11: retrieveByMetadataField and retrieveByName accept everything that
\* matches their single-key filter: a stored record whose metadata matches
\* the filter is returned whatever its similarity, unless the result is
\* already matchCount records long.
C11_FilterMatchAlwaysEligible ==
  ByFilter =>
    \A k \in StoreIdx :
      MatchesFilter(k) =>
        store[k].id \in DataIds \/ Len(Data) = retrieval.matchCount

\* The outcome of one retrieveInformation call.
C12_Outcome ==
  retrieval.called =>
    /\ retrieval.error = "embedding" =>
         ~retrieval.hasData /\ ~retrieval.searched /\ retrieval.data = <<>>
    /\ retrieval.error = "search" =>
         ~retrieval.hasData /\ retrieval.searched /\ retrieval.data = <<>>
    /\ retrieval.hasData <=> retrieval.error = ""

\* The ingestion state and the table's id sequence are as they were before
\* the query.
IngestUntouched ==
  /\ run = [r \in RunIds |-> IdleRun]
  /\ calls = <<>>
  /\ arrays = << <<>> >>
  /\ nextId = Len(store) + 1

\* C12: retrieveInformation returns instead of throwing: a failed
\* embedding call gives data null with the error set and no search call, a
\* failed search gives data null with the search error, and the call
\* changes nothing but its own result (the table and the ingestion state
\* are left as they were).
C12_RetrievalFailureIsContained == C12_Outcome /\ IngestUntouched

\* C12 witness: the embedding call failed for a query over a table that
\* holds a row, and no search was issued.
C12_Witness ==
  /\ retrieval.called
  /\ retrieval.error = "embedding"
  /\ ~retrieval.searched
  /\ ~retrieval.hasData
  /\ Len(store) >= 1

\* C13: on every query endpoint a request whose query, question or name is
\* missing, not a string, empty or whitespace-only gets HTTP 400 and no
\* embedding, search or generation call is made for it.
C13_InvalidInputRejected ==
  Handled /\ InvalidText(api.input) =>
    /\ api.status = 400
    /\ ~retrieval.called
    /\ ~api.generated


Enhanced == api.endpoint = "enhanced" /\ retrieval.called
NoneAboveThreshold == \A k \in StoreIdx : Sim(k) <= retrieval.matchThreshold

C18_GenerationFailure ==
  Enhanced /\ api.generation \in {"empty", "throw"} =>
    /\ api.result.answer = JNull
    /\ ~api.result.hasSources
    /\ ~api.result.hasContext
    /\ api.result.error # ""
    /\ api.status = 500
    /\ ~api.success

\* C18 witness: the generation call threw for a question with a retrieved
\* record.
C18_Witness ==
  /\ Enhanced
  /\ api.generation = "throw"
  /\ Len(Data) >= 1
  /\ api.status = 500

EnhancedOk == Enhanced /\ api.generation = "ok" /\ api.result.error = ""

\* C19: on a successful enhanced answer sources has one entry per
\* retrieved record in ranked order; entry k has sourceNumber k and is the
\* record of the section labelled k in the prompt context;
\* context.retrievedCount is the number of sources and is at most
\* matchCount.
C19_SourcesMatchPrompt ==
  EnhancedOk =>
    LET sources == api.result.sources
    IN /\ api.result.hasSources
       /\ Len(sources) = Len(Data)
       /\ Len(api.prompt) = Len(Data)
       /\ \A k \in 1 .. Len(sources) :
            /\ sources[k].sourceNumber = k
            /\ api.prompt[k].label = k
            /\ sources[k].similarity = Data[k].similarity
            /\ api.prompt[k].similarity = Data[k].similarity
            /\ sources[k].contentPreview = ContentPreview(Data[k].content)
            /\ api.prompt[k].content = Data[k].content
            /\ Data[k].metadata.t = "o" =>
                 /\ sources[k].metadata = Data[k].metadata
                 /\ \A key \in DOMAIN api.prompt[k].metadata :
                      api.prompt[k].metadata[key] = Data[k].metadata.v[key]
       /\ \A j, k \in 1 .. Len(sources) :
            j < k => sources[j].similarity >= sources[k].similarity
       /\ api.result.retrievedCount = Len(sources)
       /\ api.result.retrievedCount <= retrieval.matchCount

\* C19 witness: two sources of different similarity.
C19_Witness ==
  /\ EnhancedOk
  /\ Len(api.result.sources) = 2
  /\ api.result.sources[1].similarity > api.result.sources[2].similarity
  /\ api.result.sources[2].sourceNumber = 2
  /\ api.status = 200

Answered == api.endpoint = "answer" /\ retrieval.called

\* C20: getAnswer retrieves at most 3 records at threshold 0.1 and never
\* calls the generation model; when nothing is retrieved it returns answer
\* null with an error; otherwise it returns the content of the first
\* retrieved record, which has the highest similarity of the qualifying
\* records, with that record's similarity, source filename and metadata.
C20_GetAnswerPassthrough ==
  Answered =>
    /\ retrieval.matchCount = 3
    /\ retrieval.matchThreshold * 10 = SimScale
    /\ retrieval.metadataFilter = JNull
    /\ Len(Data) <= 3
    /\ ~api.generated
    /\ IF retrieval.error # "" \/ Len(Data) = 0
       THEN /\ api.result.answer = JNull
            /\ ~api.result.hasContext
            /\ api.result.error # ""
       ELSE /\ api.result.answer = Str(Data[1].content)
            /\ api.result.hasContext
            /\ api.result.similarity = Data[1].similarity
            /\ \A k \in StoreIdx :
                 Sim(k) > retrieval.matchThreshold => Sim(k) <= api.result.similarity
            /\ \E k \in StoreIdx :
                 /\ store[k].content = api.result.answer.v
                 /\ Sim(k) = api.result.similarity
                 /\ store[k].metadata = api.result.metadata
                 /\ api.result.source =
                      IF "source_filename" \in DOMAIN store[k].metadata.v
                      THEN store[k].metadata.v["source_filename"]
                      ELSE Str("unknown")
            /\ api.result.error = ""

\* C20 witness: four stored records qualify, three are retrieved, and the
\* answer is the content of a record that is not the first row of the table.
C20_Witness ==
  /\ Answered
  /\ Cardinality({ k \in StoreIdx : Sim(k) > retrieval.matchThreshold }) = 4
  /\ Len(Data) = 3
  /\ api.result.answer # JNull
  /\ api.result.answer # Str(store[1].content)
  /\ api.status = 200

\* C21: when the retriever succeeds and no stored record has similarity
\* strictly above matchThreshold (an empty store included),
\* retrieveInformation returns an empty list with error null and the search
\* endpoint answers 200, success, with resultCount 0.
Searched == api.endpoint = "query" /\ retrieval.called

C21_NoMatchIsSuccess ==
  Searched /\ retrieval.error = "" /\ NoneAboveThreshold =>
    /\ retrieval.hasData /\ retrieval.data = <<>>
    /\ api.status = 200 /\ api.success
    /\ api.result = [resultCount |-> 0]

C21_Witness ==
  /\ Searched /\ retrieval.error = "" /\ NoneAboveThreshold
  /\ Len(store) > 0 /\ retrieval.matchCount > 0
  /\ api.status = 200 /\ api.result = [resultCount |-> 0]

\* C22: a failed embedding call is retried: the first failed attempt to embed
\* a chunk is followed, as the run's next collaborator call, by another
\* embedding call for the same chunk of the same document.
FirstAttempt(k) ==
  \A j \in 1 .. k - 1 :
    ~(calls[j].op = "embed" /\ calls[j].run = calls[k].run
      /\ calls[j].file = calls[k].file /\ calls[j].chunk = calls[k].chunk)

C22_EmbeddingFailureRetried ==
  \A k \in 1 .. Len(calls) - 1 :
    calls[k].op = "embed" /\ ~calls[k].ok /\ FirstAttempt(k) =>
      /\ calls[k + 1].op = "embed"
      /\ calls[k + 1].file = calls[k].file
      /\ calls[k + 1].chunk = calls[k].chunk

\* C23: for a text of N words with N > chunkSize and overlap < chunkSize,
\* a chunk is returned for exactly the i >= 0 with i*(chunkSize-overlap) < N,
\* and chunk i is the words at positions
\* [i*(chunkSize-overlap), min(i*(chunkSize-overlap)+chunkSize, N)) joined
\* by single spaces; the example document of MaxDocWords words with the
\* default parameters gives two chunks, words 1..300 and words 251..N.
WindowStarts == { i \in 0 .. NWords - 1 : i * Step < NWords }
Window(i) ==
  Join(SubSeq(Words(cText), i * Step + 1, Min(i * Step + cChunkSize, NWords)))
IsExample ==
  cText = ExampleText /\ cChunkSize = DefaultChunkSize /\ cOverlap = DefaultOverlap

C23_ChunkWindows ==
  ChunkReturned /\ NWords > cChunkSize =>
    /\ Len(cChunks) = Cardinality(WindowStarts)
    /\ \A i \in WindowStarts : cChunks[i + 1] = Window(i)
    /\ IsExample =>
         cChunks = << Join(SubSeq(Words(cText), 1, DefaultChunkSize)),
                      Join(SubSeq(Words(cText),
                                  DefaultChunkSize - DefaultOverlap + 1, NWords)) >>

C23_Witness ==
  /\ ChunkReturned /\ IsExample /\ Len(cChunks) = 2
  /\ Head(cChunks[2]) = "b" /\ cChunks[1][2 * (DefaultChunkSize - DefaultOverlap) - 1] = "a"

\* C24: chunkText returns for every text, chunkSize >= 1 and overlap >= 0,
\* with at most one chunk per word; when overlap >= chunkSize and the text
\* has more than chunkSize words the loop ends right after the first chunk:
\* the result is the one chunk of the first chunkSize words.
C24_TerminatesAfterFirstChunk ==
  cPc = "returned" =>
    /\ Len(cChunks) >= 1 /\ Len(cChunks) <= IF NWords > 1 THEN NWords ELSE 1
    /\ cOverlap >= cChunkSize /\ NWords > cChunkSize =>
         cChunks = << Join(SubSeq(Words(cText), 1, cChunkSize)) >>

C24_Witness ==
  /\ cPc = "returned" /\ cOverlap > cChunkSize /\ NWords > cChunkSize + 1
  /\ cChunks = << Join(SubSeq(Words(cText), 1, cChunkSize)) >>

\* C25: a run issues its collaborator calls in the order of the state
\* machine: the delete (only if clearFirst) precedes the directory read;
\* each document gets exactly one metadata-extraction call, in directory
\* order, directly followed by that document's embedding calls in chunk
\* order; and no insert is issued before the last document was processed.
Phase(op) ==
  CASE op = "start" -> 0
    [] op = "delete" -> 1
    [] op = "read" -> 2
    [] op \in {"extract", "embed"} -> 3
    [] op = "insert" -> 4

CountBefore(op, j) == Cardinality({ k \in 1 .. j - 1 : calls[k].op = op })
RunFiles == run[TheRun].files

C25_CallOrder ==
  /\ \A j \in 2 .. Len(calls) :
       /\ Phase(calls[j - 1].op) <= Phase(calls[j].op)
       /\ calls[j - 1].op = calls[j].op => Phase(calls[j].op) >= 3
  /\ \A j \in CallIdx :
       /\ calls[j].op = "delete" => run[TheRun].clearFirst
       /\ calls[j].op = "read" /\ run[TheRun].clearFirst => calls[j - 1].op = "delete"
       /\ calls[j].op = "extract" =>
            /\ CountBefore("extract", j) < Len(RunFiles)
            /\ calls[j].file = RunFiles[CountBefore("extract", j) + 1].filename
       /\ calls[j].op = "embed" =>
            /\ calls[j].file = RunFiles[CountBefore("extract", j)].filename
            /\ IF calls[j].chunk = 0
               THEN calls[j - 1].op = "extract"
               ELSE /\ calls[j - 1].op = "embed" /\ calls[j - 1].ok
                    /\ calls[j - 1].chunk = calls[j].chunk - 1
                    /\ calls[j - 1].file = calls[j].file
       /\ calls[j].op = "insert" => CountBefore("extract", j) = Len(RunFiles)
  /\ Success(TheRun) => CountBefore("extract", Len(calls) + 1) = Len(RunFiles)

C25_Witness ==
  /\ Returned(TheRun) /\ run[TheRun].clearFirst /\ Len(RunFiles) = 2
  /\ \E j \in CallIdx : calls[j].op = "embed" /\ calls[j].chunk = 1
  /\ \E j \in CallIdx : calls[j].op = "embed" /\ ~calls[j].ok
  /\ \E j \in CallIdx : calls[j].op = "insert"

\* C26: among the records buffered for one document in a run, every
\* document-level metadata field has the same value in all of them,
\* chunk_index values are pairwise distinct, chunk_number = chunk_index + 1
\* and total_chunks is the number of chunks chunkText produced for the
\* document; the system-added fields win over same-named extracted fields.
ChunkFields ==
  {"chunk_index", "chunk_number", "total_chunks", "chunk_size_chars",
   "chunk_size_words"}
DocFields(rec) == DOMAIN rec.metadata \ ChunkFields
DocLevel(rec) == [f \in DocFields(rec) |-> rec.metadata[f]]
BufIdx == 1 .. Len(Buffer)
FileOf(name) == CHOOSE k \in 1 .. Len(RunFiles) : RunFiles[k].filename = name
DocChunks ==
  [c \in DocTexts |-> chunkText(c, DefaultChunkSize, DefaultOverlap)]
ChunksOf(name) == DocChunks[RunFiles[FileOf(name)].content]

C26_BufferedMetadata ==
  /\ \A j \in BufIdx, k \in BufIdx :
       Buffer[j].filename = Buffer[k].filename =>
         /\ DocLevel(Buffer[j]) = DocLevel(Buffer[k])
         /\ j # k => Buffer[j].metadata.chunk_index # Buffer[k].metadata.chunk_index
  /\ \A j \in BufIdx :
       LET md == Buffer[j].metadata
       IN /\ md.chunk_number = Num(md.chunk_index.v + 1)
          /\ md.total_chunks = Num(Len(ChunksOf(Buffer[j].filename)))
          /\ md.source_filename = Str(Buffer[j].filename)
          /\ md.file_type = Str("txt")
          /\ md.extracted_at = Str("timestamp")
          /\ "extraction_error" \notin DOMAIN md => md.extraction_model = Str(ChatModel)

C26_Witness ==
  \E j \in BufIdx, k \in BufIdx :
    /\ j # k /\ Buffer[j].filename = Buffer[k].filename
    /\ "name" \in DOMAIN Buffer[j].metadata
    /\ Buffer[j].metadata.source_filename = Str(Buffer[j].filename)
    /\ Buffer[k].metadata.total_chunks = Num(2)

\* C27: overlapping runs interfere through the one module-level buffer.
\* In every interleaving the module variable holds the array of the latest
\* started run, and a run's persist phase issues one insert per record of
\* the array the variable held when that phase began, in order, whichever
\* run embedded the record. The witness is an interleaving in which one
\* buffered record is inserted by both runs and a record the first run
\* embedded lies in a replaced array that no persist phase iterates.
C27_SharedBuffer ==
  /\ embeddedResults = Len(arrays)
  /\ Len(arrays) = 1 + Cardinality({ k \in CallIdx : calls[k].op = "start" })
  /\ \A r \in RunIds :
       LET ins == CallsOf(r, "insert")
       IN IF run[r].iterArr = 0 THEN ins = <<>>
          ELSE /\ Len(ins) = run[r].iterIdx - 1
               /\ Len(ins) <= Len(arrays[run[r].iterArr])
               /\ \A p \in 1 .. Len(ins) :
                    InsertKey(ins[p]) = RecordKey(arrays[run[r].iterArr][p])

InsertedTwice ==
  /\ run[1].iterArr = run[2].iterArr /\ run[1].iterArr # 0
  /\ \E p \in 1 .. Len(arrays[run[1].iterArr]) :
       /\ p < run[1].iterIdx /\ p < run[2].iterIdx
       /\ \A r \in RunIds : \E k \in RowsBy(r) :
            << store[k].filename, store[k].metadata.v.chunk_index.v >>
              = RecordKey(arrays[run[1].iterArr][p])

NeverInserted ==
  \E a \in 1 .. Len(arrays) - 1 :
    /\ \A r \in RunIds : run[r].iterArr # a
    /\ \E p \in 1 .. Len(arrays[a]) : arrays[a][p].by = 1

C27_Witness ==
  /\ \A r \in RunIds : run[r].pc = "done"
  /\ InsertedTwice
  /\ NeverInserted

\* C28: replacing the store's content is not atomic. In a clearFirst run,
\* once the delete has succeeded the store holds none of the previous
\* records from then on, it is empty until the persist phase, and the run
\* ends with the store empty when the directory read fails or no insert
\* succeeds; a query served after the delete and before the first
\* successful insert gets an empty result.
Cleared == { k \in CallIdx : calls[k].op = "delete" /\ calls[k].ok }
Inserted == { k \in CallIdx : calls[k].op = "insert" /\ calls[k].ok }
InWindow(k) ==
  /\ \E d \in Cleared : d < k
  /\ \A j \in Inserted : k < j
QueriesInWindow ==
  { k \in CallIdx : calls[k].op = "query" /\ calls[k].ok /\ InWindow(k) }

C28_ReplaceNotAtomic ==
  Cleared # {} =>
    /\ \A k \in 1 .. Len(store) : store[k].by # 0
    /\ run[TheRun].pc \in {"read", "extract", "embed"} => store = <<>>
    /\ run[TheRun].pc = "done" /\ Inserted = {} => store = <<>>
    /\ QueriesInWindow # {} => retrieval.hasData /\ retrieval.data = <<>>

C28_Witness ==
  /\ Cleared # {} /\ nextId = 2
  /\ run[TheRun].pc = "done" /\ Inserted = {} /\ store = <<>>
  /\ \E k \in CallIdx : calls[k].op = "insert"
  /\ \E k \in QueriesInWindow : calls[k - 1].op = "embed"
  /\ retrieval.data = <<>>

AnswerCalled == api.endpoint \in {"answer", "enhanced"} /\ retrieval.called

C30_AnswerXorError ==
  AnswerCalled =>
    /\ {"answer", "error"} \subseteq DOMAIN api.result
    /\ api.result.answer.t = "null" <=> api.result.error # ""

C30_Witness ==
  /\ AnswerCalled /\ api.endpoint = "answer"
  /\ retrieval.error = "" /\ retrieval.data = <<>> /\ Len(store) > 0
  /\ api.result.answer.t = "null" /\ api.result.error # ""

====
